---- MODULE Spec2Model ----
(***************************************************************************)
(* green-screen (src/src/main.rs): a capture thread decodes camera frames, *)
(* substitutes chroma-keyed pixels by a background frame and broadcasts    *)
(* the payload to the TCP streams that an accept thread registers in a     *)
(* Mutex<State>.                                                           *)
(*                                                                         *)
(* Spec   : the two threads, the mutex, the registry and the pipeline.     *)
(* SpecLive : Spec with the fairness of the two threads and of the mutex.  *)
(* SpecFn : the pure functions (to_colors, to_buffer, apply_to,            *)
(*          should_cut_off) applied to inputs drawn from bounded sets.     *)
(*                                                                         *)
(* Panics unwind (the default profile): a panic of a spawned thread ends   *)
(* that thread only, a panic of the main thread ends the process.          *)
(***************************************************************************)
EXTENDS Integers, Sequences, FiniteSets, TLC

\* ------------------------------------------------------------------ bounds
\* connections the listener yields
MaxConns == 2
\* frames the device yields after the background frame
MaxFrames == 2
\* failed accept attempts
MaxAcceptErrs == 1
\* pixels of a device frame
MaxFramePixels == 2
\* bytes of a raw buffer handed to to_colors (SpecFn)
MaxRawLen == 8
\* pixels of a sequence handed to apply_to (SpecFn)
MaxPixels == 2
\* connections the listener yields in the behaviours of SpecLive
MaxLiveConns == 1

\* ------------------------------------------------------- policy constants
cut_off_start == 150
cut_off_end == 255
cut_off_1 == 20
cut_off_2 == 20
cut_off_variance == 120

\* ------------------------------------------------------------- PixelCodec
\* the tuple read as (r, g, b, a)
ColorFrom_rgba(v0, v1, v2, v3) == [r |-> v0, g |-> v1, b |-> v2, a |-> v3]

\* impl From<(&u8, &u8, &u8, &u8)> for Color: the tuple is read as (b, g, r, a)
ColorFrom(v0, v1, v2, v3) == [r |-> v2, g |-> v1, b |-> v0, a |-> v3]

\* impl From<Color> for [u8; 4]
ColorInto(value) == <<value.r, value.g, value.b, value.a>>

\* overlapping windows (tuple_windows) instead of disjoint groups
RECURSIVE to_colors_windows(_)
to_colors_windows(raw) ==
    IF Len(raw) < 4 THEN <<>>
    ELSE <<[r |-> raw[3], g |-> raw[2], b |-> raw[1], a |-> raw[4]]>>
             \o to_colors_windows(Tail(raw))

\* itertools tuples::<(_,_,_,_)>(): complete groups of four, the rest dropped
RECURSIVE to_colors(_)
to_colors(raw) ==
    IF Len(raw) < 4 THEN <<>>
    ELSE <<ColorFrom(raw[1], raw[2], raw[3], raw[4])>>
             \o to_colors(SubSeq(raw, 5, Len(raw)))

RECURSIVE to_buffer(_)
to_buffer(colors) ==
    IF colors = <<>> THEN <<>>
    ELSE ColorInto(Head(colors)) \o to_buffer(Tail(colors))

\* ------------------------------------------------------- ChromaKeyFilter
FilterType == {"Red", "Blue", "Green"}

\* u32::abs_diff
abs_diff(x, y) == IF x >= y THEN x - y ELSE y - x

\* the inclusive range start..=end
range_contains_inclusive(start, end, x) == start <= x /\ x <= end

\* Range<u8>::contains of start..end (half open)
range_contains(start, end, x) == start <= x /\ x < end

should_cut_off(self, color) ==
    LET first == CASE self = "Red" -> color.g
                   [] self = "Blue" -> color.g
                   [] self = "Green" -> color.b
        second == CASE self = "Red" -> color.b
                    [] self = "Blue" -> color.r
                    [] self = "Green" -> color.r
        target_color == CASE self = "Red" -> color.r
                          [] self = "Blue" -> color.b
                          [] self = "Green" -> color.g
        target_color_variance == (0 + abs_diff(first, cut_off_1))
                                   + abs_diff(second, cut_off_2)
    IN  range_contains(cut_off_start, cut_off_end, target_color)
        /\ target_color_variance < cut_off_variance

\* the branches of the closure exchanged
apply_to_inverted(self, back_ground_frame, current_frame) ==
    LET out_of_bounds ==
            \E index \in 1..Len(current_frame) :
                /\ ~should_cut_off(self, current_frame[index])
                /\ index > Len(back_ground_frame)
    IN  IF out_of_bounds
        THEN [ok |-> FALSE, frame |-> <<>>]
        ELSE [ok |-> TRUE,
              frame |-> [index \in 1..Len(current_frame) |->
                           IF should_cut_off(self, current_frame[index])
                           THEN current_frame[index]
                           ELSE back_ground_frame[index]]]

\* back_ground_frame[index] panics when index is out of bounds; it is
\* evaluated only for the pixels that should_cut_off selects.
apply_to(self, back_ground_frame, current_frame) ==
    LET out_of_bounds ==
            \E index \in 1..Len(current_frame) :
                /\ should_cut_off(self, current_frame[index])
                /\ index > Len(back_ground_frame)
    IN  IF out_of_bounds
        THEN [ok |-> FALSE, frame |-> <<>>]
        ELSE [ok |-> TRUE,
              frame |-> [index \in 1..Len(current_frame) |->
                           IF should_cut_off(self, current_frame[index])
                           THEN back_ground_frame[index]
                           ELSE current_frame[index]]]

\* the payload string, by its fields
build_tcp_payload(w, h, frame_buffer) ==
    [width |-> w, height |-> h, order |-> "RGBA", image |-> frame_buffer]

\* ------------------------------------------------------------------ state
VARIABLES
    state,              \* Mutex<State>: [filter, con_count, streams]
    lock,               \* holder of the mutex: "free", "accept", "capture"
    proc,               \* "running" or "exited"
    accPc,              \* accept thread: bind, incoming, lock, insert, panicked
    accepted,           \* connections the listener has yielded (the last is in hand)
    acceptErrs,         \* failed accept attempts so far
    issued,             \* keys insert_stream has used, in order
    capPc,              \* main thread: start, wait, lock, process, pass, returned, panicked
    w, h,               \* size of the first frame
    back_ground_frame,  \* colors of the first frame
    frame,              \* the frame wait_for_frame returned last
    framesSeen,         \* frames yielded inside the loop
    payload,            \* the payload of the running process_payload call
    passNo,             \* process_payload calls started
    passPre,            \* streams when the running (or last) call started
    remaining,          \* keys iter_mut has not yielded yet
    removal,            \* the collected Vec<usize>
    wErr, fErr,         \* keys whose writeln! / flush returned Err in this call
    attempts,           \* key -> write+flush attempts in this call
    received,           \* sink -> numbers of the calls whose payload it was written
    failedSinks,        \* sinks whose writeln! or flush has returned Err
    regAt,              \* sink -> passNo when it was inserted
    streamEnded,        \* wait_for_frame has returned None
    call, ret           \* SpecFn: the function applied and its result

sysVars == <<state, lock, proc, accPc, accepted, acceptErrs, issued, capPc, w, h,
             back_ground_frame, frame, framesSeen, payload, passNo, passPre,
             remaining, removal, wErr, fErr, attempts, received, failedSinks, regAt,
             streamEnded>>
fnVars == <<call, ret>>
vars == <<sysVars, fnVars>>

accVars == <<accPc, accepted, acceptErrs, issued, regAt>>
capVars == <<capPc, w, h, back_ground_frame, frame, framesSeen, payload, streamEnded>>
passVars == <<passNo, passPre, remaining, removal, wErr, fErr, attempts, received,
              failedSinks>>

\* ----------------------------------------------------------- environment
\* raw (b, g, r, a) groups a device frame is made of: a red-key pixel and a plain one
FramePixels == {<<25, 15, 200, 255>>, <<0, 0, 10, 255>>}

\* the raw buffer of n pixels px
RECURSIVE RawOfPixels(_, _)
RawOfPixels(px, n) == IF n = 0 THEN <<>> ELSE px \o RawOfPixels(px, n - 1)

\* frames wait_for_frame can return: one row of 1..MaxFramePixels equal pixels
DeviceFrames ==
    {[w |-> n, h |-> 1, data |-> RawOfPixels(px, n)] :
        px \in FramePixels, n \in 1..MaxFramePixels}

NoFrame == [w |-> 0, h |-> 0, data |-> <<>>]
NoPayload == build_tcp_payload(0, 0, <<>>)
NoCall == [fn |-> "none", self |-> "Red", raw |-> <<>>, bg |-> <<>>, cur |-> <<>>,
           color |-> ColorFrom(0, 0, 0, 0)]
NoRet == [done |-> FALSE, colors |-> <<>>, buf |-> <<>>, cut |-> FALSE, ok |-> TRUE]

\* ---------------------------------------------------------------- State
\* impl Default for State
StateDefault == [filter |-> "Red", con_count |-> 0, streams |-> <<>>]

\* HashMap::insert
MapInsert(m, key, value) ==
    [k \in DOMAIN m \cup {key} |-> IF k = key THEN value ELSE m[k]]

\* HashMap::remove_entry for every key of a set
MapRemoveAll(m, keys) == [k \in DOMAIN m \ keys |-> m[k]]

\* the key taken from the number of live entries instead of the counter
insert_stream_by_len(self, stream) ==
    LET con_count == Cardinality(DOMAIN self.streams) + 1
    IN  [self EXCEPT !.con_count = con_count,
                     !.streams = MapInsert(self.streams, con_count, stream)]

\* the insert also sets the filter
insert_stream_green(self, stream) ==
    LET con_count == self.con_count + 1
    IN  [self EXCEPT !.filter = "Green",
                     !.con_count = con_count,
                     !.streams = MapInsert(self.streams, con_count, stream)]

insert_stream(self, stream) ==
    LET con_count == self.con_count + 1
    IN  [self EXCEPT !.con_count = con_count,
                     !.streams = MapInsert(self.streams, con_count, stream)]

\* a lock that never blocks
LockAvailable_always(l) == TRUE

\* Mutex::lock returns once no thread holds the guard
LockAvailable(l) == l = "free"

\* the key collected only when both calls fail
Collected_both(w_is_err, r_is_err) == r_is_err /\ w_is_err

\* the filter_map closure's result: Some(key) iff r.is_err() || w.is_err()
Collected(w_is_err, r_is_err) == r_is_err \/ w_is_err

\* the pass leaves out the entry inserted last
PassKeys_skip_last(streams) ==
    {k \in DOMAIN streams : \E j \in DOMAIN streams : j > k}

\* self.streams.iter_mut() yields every entry of the map
PassKeys(streams) == DOMAIN streams

\* the failed entry removed at once, inside the pass
StreamsDuringPass_eager(streams, key, failed) ==
    IF failed THEN MapRemoveAll(streams, {key}) ELSE streams

\* the map while iter_mut borrows it: the closure only collects the key
StreamsDuringPass(streams, key, failed) == streams

\* no collected key is removed
StreamsAfterPass_none(streams, keys) == streams

\* the for_each after collect: every collected key is removed
StreamsAfterPass(streams, keys) == MapRemoveAll(streams, keys)

Init ==
    /\ state = StateDefault
    /\ lock = "free"
    /\ proc = "running"
    /\ accPc = "bind"
    /\ accepted = 0
    /\ acceptErrs = 0
    /\ issued = <<>>
    /\ capPc = "start"
    /\ w = 0
    /\ h = 0
    /\ back_ground_frame = <<>>
    /\ frame = NoFrame
    /\ framesSeen = 0
    /\ payload = NoPayload
    /\ passNo = 0
    /\ passPre = <<>>
    /\ remaining = {}
    /\ removal = {}
    /\ wErr = {}
    /\ fErr = {}
    /\ attempts = <<>>
    /\ received = <<>>
    /\ failedSinks = {}
    /\ regAt = <<>>
    /\ streamEnded = FALSE
    /\ call = NoCall
    /\ ret = NoRet

\* ------------------------------------------------------- accept thread
\* TcpListener::bind(..).unwrap() succeeds
BindOk ==
    /\ proc = "running" /\ accPc = "bind"
    /\ accPc' = "incoming"
    /\ UNCHANGED <<state, lock, proc, accepted, acceptErrs, issued, regAt, capVars,
                   passVars, fnVars>>

\* TcpListener::bind(..).unwrap() panics inside the spawned thread
BindFail ==
    /\ proc = "running" /\ accPc = "bind"
    /\ accPc' = "panicked"
    /\ UNCHANGED <<state, lock, proc, accepted, acceptErrs, issued, regAt, capVars,
                   passVars, fnVars>>

\* listener.incoming() yields Ok(stream)
AcceptOk ==
    /\ proc = "running" /\ accPc = "incoming"
    /\ accepted < MaxConns
    /\ accepted' = accepted + 1
    /\ received' = MapInsert(received, accepted + 1, <<>>)
    /\ accPc' = "lock"
    /\ UNCHANGED <<state, lock, proc, acceptErrs, issued, regAt, capVars, passNo,
                   passPre, remaining, removal, wErr, fErr, attempts, failedSinks,
                   fnVars>>

\* an Err of incoming() ends the thread (unwrap) instead of continue
AcceptErr_break ==
    /\ proc = "running" /\ accPc = "incoming"
    /\ acceptErrs < MaxAcceptErrs
    /\ acceptErrs' = acceptErrs + 1
    /\ accPc' = "panicked"
    /\ UNCHANGED <<state, lock, proc, accepted, issued, regAt, capVars, passVars,
                   fnVars>>

\* listener.incoming() yields Err: continue
AcceptErr ==
    /\ proc = "running" /\ accPc = "incoming"
    /\ acceptErrs < MaxAcceptErrs
    /\ acceptErrs' = acceptErrs + 1
    /\ UNCHANGED <<state, lock, proc, accPc, accepted, issued, regAt, capVars,
                   passVars, fnVars>>

\* state.lock().unwrap()
AcceptLock ==
    /\ proc = "running" /\ accPc = "lock"
    /\ LockAvailable(lock)
    /\ lock' = "accept"
    /\ accPc' = "insert"
    /\ UNCHANGED <<state, proc, accepted, acceptErrs, issued, regAt, capVars,
                   passVars, fnVars>>

\* state.insert_stream(stream); the guard is dropped at the end of the body
AcceptInsert ==
    /\ proc = "running" /\ accPc = "insert"
    /\ state' = insert_stream(state, accepted)
    /\ issued' = Append(issued, state'.con_count)
    /\ regAt' = MapInsert(regAt, accepted, passNo)
    /\ lock' = "free"
    /\ accPc' = "incoming"
    /\ UNCHANGED <<proc, accepted, acceptErrs, capVars, passVars, fnVars>>

\* -------------------------------------------------------- main thread
\* the first camera.wait_for_frame() returns Some(frame)
CameraFirstFrame ==
    /\ proc = "running" /\ capPc = "start"
    /\ \E f \in DeviceFrames :
        /\ w' = f.w
        /\ h' = f.h
        /\ back_ground_frame' = to_colors(f.data)
    /\ capPc' = "wait"
    /\ UNCHANGED <<state, lock, proc, accVars, frame, framesSeen, payload,
                   streamEnded, passVars, fnVars>>

\* the first camera.wait_for_frame() returns None: start_camera and main return
CameraNoFirstFrame ==
    /\ proc = "running" /\ capPc = "start"
    /\ capPc' = "returned"
    /\ proc' = "exited"
    /\ streamEnded' = TRUE
    /\ UNCHANGED <<state, lock, accVars, w, h, back_ground_frame, frame, framesSeen,
                   payload, passVars, fnVars>>

\* the background taken again from every frame of the loop
WaitFrame_recapture ==
    /\ proc = "running" /\ capPc = "wait"
    /\ framesSeen < MaxFrames
    /\ \E f \in DeviceFrames :
        /\ frame' = f
        /\ back_ground_frame' = to_colors(f.data)
    /\ framesSeen' = framesSeen + 1
    /\ capPc' = "lock"
    /\ UNCHANGED <<state, lock, proc, accVars, w, h, payload, streamEnded, passVars,
                   fnVars>>

\* camera.wait_for_frame() in the loop returns Some(frame)
WaitFrame ==
    /\ proc = "running" /\ capPc = "wait"
    /\ framesSeen < MaxFrames
    /\ \E f \in DeviceFrames : frame' = f
    /\ framesSeen' = framesSeen + 1
    /\ capPc' = "lock"
    /\ UNCHANGED <<state, lock, proc, accVars, w, h, back_ground_frame, payload,
                   streamEnded, passVars, fnVars>>

\* None in the loop skipped (continue) instead of returning
EndOfStream_continue ==
    /\ proc = "running" /\ capPc = "wait"
    /\ ~streamEnded
    /\ streamEnded' = TRUE
    /\ UNCHANGED <<state, lock, proc, accVars, capPc, w, h, back_ground_frame, frame,
                   framesSeen, payload, passVars, fnVars>>

\* camera.wait_for_frame() in the loop returns None: start_camera and main return
EndOfStream ==
    /\ proc = "running" /\ capPc = "wait"
    /\ capPc' = "returned"
    /\ proc' = "exited"
    /\ streamEnded' = TRUE
    /\ UNCHANGED <<state, lock, accVars, w, h, back_ground_frame, frame, framesSeen,
                   payload, passVars, fnVars>>

\* the frame decoded without the guard
CaptureLock_late ==
    /\ proc = "running" /\ capPc = "lock"
    /\ capPc' = "process"
    /\ UNCHANGED <<state, lock, proc, accVars, w, h, back_ground_frame, frame,
                   framesSeen, payload, streamEnded, passVars, fnVars>>

\* state.lock().unwrap()
CaptureLock ==
    /\ proc = "running" /\ capPc = "lock"
    /\ LockAvailable(lock)
    /\ lock' = "capture"
    /\ capPc' = "process"
    /\ UNCHANGED <<state, proc, accVars, w, h, back_ground_frame, frame, framesSeen,
                   payload, streamEnded, passVars, fnVars>>

\* the frame decoded and filtered under the guard
Modified == apply_to(state.filter, back_ground_frame, to_colors(frame.data))

\* the payload with the size of the current frame
Payload_current_size == build_tcp_payload(frame.w, frame.h, to_buffer(Modified.frame))

\* build_tcp_payload(w, h, modified_frame.to_buffer()): w, h of the first frame
Payload == build_tcp_payload(w, h, to_buffer(Modified.frame))

\* to_colors, apply_to, to_buffer, build_tcp_payload; process_payload starts
CaptureFilter ==
    /\ proc = "running" /\ capPc = "process"
    /\ Modified.ok
    /\ payload' = Payload
    /\ passNo' = passNo + 1
    /\ passPre' = state.streams
    /\ remaining' = PassKeys(state.streams)
    /\ removal' = {}
    /\ wErr' = {}
    /\ fErr' = {}
    /\ attempts' = [k \in DOMAIN state.streams |-> 0]
    /\ capPc' = "pass"
    /\ UNCHANGED <<state, lock, proc, accVars, w, h, back_ground_frame, frame,
                   framesSeen, streamEnded, received, failedSinks, fnVars>>

\* apply_to indexes back_ground_frame out of bounds: the main thread panics
CapturePanic ==
    /\ proc = "running" /\ capPc = "process"
    /\ ~Modified.ok
    /\ capPc' = "panicked"
    /\ proc' = "exited"
    /\ UNCHANGED <<state, lock, accVars, w, h, back_ground_frame, frame, framesSeen,
                   payload, streamEnded, passVars, fnVars>>

\* one step of iter_mut().filter_map(..): writeln!, flush, collect the key on Err
PassAttempt ==
    /\ proc = "running" /\ capPc = "pass"
    /\ \E key \in remaining, w_is_err \in BOOLEAN, r_is_err \in BOOLEAN :
        LET failed == Collected(w_is_err, r_is_err)
            sink == state.streams[key]
        IN  /\ remaining' = remaining \ {key}
            /\ attempts' = [attempts EXCEPT ![key] = @ + 1]
            /\ received' = IF w_is_err THEN received
                           ELSE [received EXCEPT ![sink] = Append(@, passNo)]
            /\ wErr' = IF w_is_err THEN wErr \cup {key} ELSE wErr
            /\ fErr' = IF r_is_err THEN fErr \cup {key} ELSE fErr
            /\ removal' = IF failed THEN removal \cup {key} ELSE removal
            /\ failedSinks' = IF w_is_err \/ r_is_err
                              THEN failedSinks \cup {sink} ELSE failedSinks
            /\ state' = [state EXCEPT
                           !.streams = StreamsDuringPass(state.streams, key, failed)]
    /\ UNCHANGED <<lock, proc, accVars, capVars, passNo, passPre, fnVars>>

\* the guard kept over the next wait_for_frame
PassPrune_keep_guard ==
    /\ proc = "running" /\ capPc = "pass"
    /\ remaining = {}
    /\ state' = [state EXCEPT !.streams = StreamsAfterPass(state.streams, removal)]
    /\ frame' = NoFrame
    /\ payload' = NoPayload
    /\ capPc' = "wait"
    /\ UNCHANGED <<lock, proc, accVars, w, h, back_ground_frame, framesSeen,
                   streamEnded, passVars, fnVars>>

\* collect() is complete: remove_entry for every collected key; the guard, the
\* frame and the payload are dropped at the end of the loop body
PassPrune ==
    /\ proc = "running" /\ capPc = "pass"
    /\ remaining = {}
    /\ state' = [state EXCEPT !.streams = StreamsAfterPass(state.streams, removal)]
    /\ lock' = "free"
    /\ frame' = NoFrame
    /\ payload' = NoPayload
    /\ capPc' = "wait"
    /\ UNCHANGED <<proc, accVars, w, h, back_ground_frame, framesSeen, streamEnded,
                   passVars, fnVars>>

Next ==
    \/ BindOk
    \/ BindFail
    \/ AcceptOk
    \/ AcceptErr
    \/ AcceptLock
    \/ AcceptInsert
    \/ CameraFirstFrame
    \/ CameraNoFirstFrame
    \/ WaitFrame
    \/ EndOfStream
    \/ CaptureLock
    \/ CaptureFilter
    \/ CapturePanic
    \/ PassAttempt
    \/ PassPrune

Spec == Init /\ [][Next]_vars

\* a step of the main thread between its lock() and the end of the loop body
CaptureStep ==
    \/ CaptureFilter
    \/ CapturePanic
    \/ PassAttempt
    \/ PassPrune

\* both threads keep running inside their critical sections, and the mutex hands
\* the guard to a thread that keeps asking for it
Fairness ==
    /\ SF_vars(AcceptLock)
    /\ WF_vars(AcceptInsert)
    /\ WF_vars(CaptureStep)

\* incoming() yields a connection, at most MaxLiveConns of them
AcceptOkLive == AcceptOk /\ accepted < MaxLiveConns

\* the steps of Next with at most MaxLiveConns connections
NextLive ==
    \/ BindOk
    \/ BindFail
    \/ AcceptOkLive
    \/ AcceptErr
    \/ AcceptLock
    \/ AcceptInsert
    \/ CameraFirstFrame
    \/ CameraNoFirstFrame
    \/ WaitFrame
    \/ EndOfStream
    \/ CaptureLock
    \/ CaptureFilter
    \/ CapturePanic
    \/ PassAttempt
    \/ PassPrune

SpecLive == Init /\ [][NextLive]_vars /\ Fairness

\* ------------------------------------------------- the functions alone
\* byte values of the raw buffers handed to to_colors
RawBytes == {1, 2, 3}

RawBuffers == UNION {[1..n -> RawBytes] : n \in 0..MaxRawLen}

\* channel values around the thresholds of should_cut_off, and two alphas
ChannelSamples == {0, 10, 20, 50, 100, 119, 120, 139, 140, 149, 150, 235, 254, 255}
AlphaSamples == {5, 255}

SampleColors ==
    {[r |-> cr, g |-> cg, b |-> cb, a |-> ca] :
        cr \in ChannelSamples, cg \in ChannelSamples, cb \in ChannelSamples,
        ca \in AlphaSamples}

\* pixels of the sequences handed to apply_to: a key pixel of each kind, and black
FilterPixels ==
    {[r |-> 200, g |-> 15, b |-> 25, a |-> 255],
     [r |-> 25, g |-> 15, b |-> 200, a |-> 255],
     [r |-> 15, g |-> 200, b |-> 25, a |-> 255],
     [r |-> 0, g |-> 0, b |-> 0, a |-> 255]}

PixelSeqs == UNION {[1..n -> FilterPixels] : n \in 0..MaxPixels}

\* the call a behaviour of SpecFn makes: a function and its arguments
IsCall(c) ==
    \/ \E f \in {"to_colors", "round_trip"}, raw \in RawBuffers :
           c = [NoCall EXCEPT !.fn = f, !.raw = raw]
    \/ \E self \in FilterType, bg \in PixelSeqs, cur \in PixelSeqs :
           c = [NoCall EXCEPT !.fn = "apply_to", !.self = self, !.bg = bg, !.cur = cur]
    \/ \E self \in FilterType, color \in SampleColors :
           c = [NoCall EXCEPT !.fn = "should_cut_off", !.self = self, !.color = color]

InitFn ==
    /\ state = StateDefault
    /\ lock = "free"
    /\ proc = "running"
    /\ accPc = "bind"
    /\ accepted = 0
    /\ acceptErrs = 0
    /\ issued = <<>>
    /\ capPc = "start"
    /\ w = 0
    /\ h = 0
    /\ back_ground_frame = <<>>
    /\ frame = NoFrame
    /\ framesSeen = 0
    /\ payload = NoPayload
    /\ passNo = 0
    /\ passPre = <<>>
    /\ remaining = {}
    /\ removal = {}
    /\ wErr = {}
    /\ fErr = {}
    /\ attempts = <<>>
    /\ received = <<>>
    /\ failedSinks = {}
    /\ regAt = <<>>
    /\ streamEnded = FALSE
    /\ IsCall(call)
    /\ ret = NoRet

\* buffer.to_colors()
CallToColors ==
    /\ call.fn = "to_colors" /\ ~ret.done
    /\ ret' = [NoRet EXCEPT !.done = TRUE, !.colors = to_colors(call.raw)]
    /\ UNCHANGED <<call, sysVars>>

\* buffer.to_colors().to_buffer()
CallRoundTrip ==
    /\ call.fn = "round_trip" /\ ~ret.done
    /\ ret' = [NoRet EXCEPT !.done = TRUE, !.buf = to_buffer(to_colors(call.raw))]
    /\ UNCHANGED <<call, sysVars>>

\* filter.apply_to(&back_ground_frame, current_frame)
CallApplyTo ==
    /\ call.fn = "apply_to" /\ ~ret.done
    /\ LET modified == apply_to(call.self, call.bg, call.cur)
       IN  ret' = [NoRet EXCEPT !.done = TRUE, !.ok = modified.ok,
                                !.colors = modified.frame]
    /\ UNCHANGED <<call, sysVars>>

\* filter.should_cut_off(&color)
CallShouldCutOff ==
    /\ call.fn = "should_cut_off" /\ ~ret.done
    /\ ret' = [NoRet EXCEPT !.done = TRUE, !.cut = should_cut_off(call.self, call.color)]
    /\ UNCHANGED <<call, sysVars>>

NextFn ==
    \/ CallToColors
    \/ CallRoundTrip
    \/ CallApplyTo
    \/ CallShouldCutOff

SpecFn == InitFn /\ [][NextFn]_vars

\* ------------------------------------------------------------- properties
\* occurrences of x in a sequence
Count(seq, x) == Cardinality({i \in 1..Len(seq) : seq[i] = x})

\* keys whose write or flush failed in the running (or last) process_payload call
Failed == wErr \cup fErr

\* C1: when a process_payload call ends, the registry holds exactly the entries
\* it held when the call started minus those whose write or flush failed; every
\* sink whose write and flush succeeded was written the payload exactly once in
\* the call; an entry is removed iff its write or its flush failed.
PruneExactlyFailed ==
    [][(capPc = "pass" /\ capPc' = "wait") =>
         /\ state'.streams = MapRemoveAll(passPre, Failed)
         /\ \A k \in DOMAIN passPre \ Failed :
                Count(received'[passPre[k]], passNo) = 1
         /\ \A k \in DOMAIN passPre :
                (k \notin DOMAIN state'.streams) <=> (k \in wErr \/ k \in fErr)]_vars

\* a call has ended in which one sink failed its write only and another sink
\* succeeded and stays registered
PruneExactlyFailedWitness ==
    /\ capPc = "wait"
    /\ passNo >= 1
    /\ wErr \ fErr # {}
    /\ DOMAIN passPre \ Failed # {}
    /\ DOMAIN state.streams = DOMAIN passPre \ Failed

\* C2: the keys insert_stream issues are strictly increasing (so none is issued
\* twice, removed or not), and every key in the registry is at most con_count.
IdentifiersIncrease ==
    /\ \A i, j \in 1..Len(issued) : i < j => issued[i] < issued[j]
    /\ \A k \in DOMAIN state.streams : k <= state.con_count

\* key 1 was the only entry of the last call and was removed by it, and a
\* stream registered after that got key 2
IdentifiersIncreaseWitness ==
    /\ Len(issued) = 2
    /\ DOMAIN passPre = {1}
    /\ Failed = {1}
    /\ capPc = "wait"
    /\ DOMAIN state.streams = {issued[2]}

\* C3: the accept thread is never inside insert_stream while the main thread is
\* between its lock() and the end of process_payload, and no key appears in the
\* registry during a process_payload call.
MutualExclusion ==
    /\ ~(accPc = "insert" /\ capPc \in {"process", "pass"})
    /\ capPc = "pass" => DOMAIN state.streams \subseteq DOMAIN passPre

\* the accept thread waits for the lock with a stream in hand during a pass
MutualExclusionWitness ==
    /\ accPc = "lock"
    /\ capPc = "pass"
    /\ remaining # {}

\* C4: during a process_payload call the registry is the one the call started
\* with as long as the pass runs, and when the pass is over every entry the
\* call started with has had exactly one write and flush attempt.
PruneAfterPass ==
    /\ capPc = "pass" => state.streams = passPre
    /\ (capPc = "pass" /\ remaining = {}) =>
           \A k \in DOMAIN passPre : attempts[k] = 1
    /\ (capPc = "pass" /\ remaining # {}) =>
           \A k \in DOMAIN passPre : attempts[k] = IF k \in remaining THEN 0 ELSE 1

\* a failed entry is collected and still registered while another entry waits
\* for its attempt
PruneAfterPassWitness ==
    /\ capPc = "pass"
    /\ removal # {}
    /\ remaining # {}
    /\ removal \subseteq DOMAIN state.streams

\* C5: once the bind has failed the main thread takes no further step of the
\* pipeline: no background frame is captured, no frame is awaited, filtered
\* or broadcast.
BindFailureStopsPipeline ==
    [][accPc = "panicked" =>
         /\ back_ground_frame' = back_ground_frame
         /\ framesSeen' = framesSeen
         /\ passNo' = passNo
         /\ received' = received]_vars

\* C6: no process_payload call runs for a frame whose decoded length differs
\* from the background's.
MismatchAborts ==
    capPc = "pass" => Len(to_colors(frame.data)) = Len(back_ground_frame)

\* C7: for background and current of equal length apply_to returns, without
\* panic, a sequence of that length holding background[i] where should_cut_off
\* selects current[i] and current[i] elsewhere.
ApplySubstitutes ==
    (call.fn = "apply_to" /\ ret.done /\ Len(call.bg) = Len(call.cur)) =>
        /\ ret.ok
        /\ Len(ret.colors) = Len(call.cur)
        /\ \A i \in 1..Len(call.cur) :
               ret.colors[i] = IF should_cut_off(call.self, call.cur[i])
                               THEN call.bg[i] ELSE call.cur[i]

\* two pixels, the first replaced by a different background pixel, the second kept
ApplySubstitutesWitness ==
    /\ call.fn = "apply_to" /\ ret.done
    /\ Len(call.bg) = 2 /\ Len(call.cur) = 2
    /\ should_cut_off(call.self, call.cur[1])
    /\ ~should_cut_off(call.self, call.cur[2])
    /\ call.bg[1] # call.cur[1]
    /\ call.bg[2] # call.cur[2]
    /\ ret.colors = <<call.bg[1], call.cur[2]>>

\* the rule of the claim: key in [150, 255) and |ref1 - 20| + |ref2 - 20| < 120
KeyChannel(self, c) ==
    IF self = "Red" THEN c.r ELSE IF self = "Blue" THEN c.b ELSE c.g
RefChannels(self, c) ==
    IF self = "Red" THEN <<c.g, c.b>>
    ELSE IF self = "Blue" THEN <<c.g, c.r>> ELSE <<c.b, c.r>>
Distance20(x) == IF x < 20 THEN 20 - x ELSE x - 20
KeyRule(self, c) ==
    /\ KeyChannel(self, c) >= 150
    /\ KeyChannel(self, c) < 255
    /\ Distance20(RefChannels(self, c)[1]) + Distance20(RefChannels(self, c)[2]) < 120

\* C8: should_cut_off is true iff the key channel is in [150, 255) and the
\* distances of the two reference channels from 20 add up to less than 120; the
\* alpha channel does not matter and a key channel of 255 is never selected.
ClassifyRule ==
    (call.fn = "should_cut_off" /\ ret.done) =>
        /\ ret.cut <=> KeyRule(call.self, call.color)
        /\ \A alpha \in AlphaSamples :
               ret.cut = should_cut_off(call.self, [call.color EXCEPT !.a = alpha])
        /\ KeyChannel(call.self, call.color) = 255 => ~ret.cut

\* a blue-key pixel on both boundaries: key 254, distances 0 + 119
ClassifyRuleWitness ==
    /\ call.fn = "should_cut_off" /\ ret.done
    /\ call.self = "Blue"
    /\ call.color.b = 254 /\ call.color.g = 20 /\ call.color.r = 139
    /\ ret.cut

\* the index whose byte the round trip puts at index i
SwapIndex(i) ==
    IF (i - 1) % 4 = 0 THEN i + 2 ELSE IF (i - 1) % 4 = 2 THEN i - 2 ELSE i

\* C9: for a raw buffer of a multiple of 4 bytes to_colors().to_buffer() has the
\* same length, exchanges bytes 0 and 2 of every group of four and keeps bytes
\* 1 and 3; applied to its own result it gives the buffer back.
RoundTripSwaps ==
    (call.fn = "round_trip" /\ ret.done /\ Len(call.raw) % 4 = 0) =>
        /\ Len(ret.buf) = Len(call.raw)
        /\ \A i \in 1..Len(call.raw) : ret.buf[i] = call.raw[SwapIndex(i)]
        /\ to_buffer(to_colors(ret.buf)) = call.raw

\* two groups, each with different bytes 0 and 2
RoundTripSwapsWitness ==
    /\ call.fn = "round_trip" /\ ret.done
    /\ Len(call.raw) = 8
    /\ call.raw[1] # call.raw[3]
    /\ call.raw[5] # call.raw[7]
    /\ ret.buf # call.raw

\* C10: to_colors of n bytes yields n div 4 pixels, pixel k made of the bytes
\* 4k-3 .. 4k in order; the n mod 4 trailing bytes are dropped.
DecodeGroups ==
    (call.fn = "to_colors" /\ ret.done) =>
        /\ Len(ret.colors) = Len(call.raw) \div 4
        /\ \A k \in 1..Len(ret.colors) :
               ret.colors[k] = [b |-> call.raw[4 * k - 3], g |-> call.raw[4 * k - 2],
                                r |-> call.raw[4 * k - 1], a |-> call.raw[4 * k]]

\* seven bytes give one pixel, three bytes are dropped
DecodeGroupsWitness ==
    /\ call.fn = "to_colors" /\ ret.done
    /\ Len(call.raw) = 7
    /\ Len(ret.colors) = 1

\* the sequence a, a + 1, .., b (empty when b < a)
Run(a, b) == [i \in 1..(b - a + 1) |-> a + i - 1]

\* sinks of the entries of a map
Sinks(streams) == {streams[k] : k \in DOMAIN streams}

\* C11: once wait_for_frame has returned None the main thread has returned and
\* the process is over, and no later step captures a background, starts a pass
\* or writes to a sink; when the first wait returns None there is no background
\* and no sink has or gets a payload.
EndOfStreamStops ==
    [][/\ streamEnded =>
            /\ passNo' = passNo
            /\ received' = received
            /\ back_ground_frame' = back_ground_frame
            /\ framesSeen' = framesSeen
       /\ streamEnded' => (capPc' = "returned" /\ proc' = "exited")
       /\ (capPc = "start" /\ streamEnded') =>
            /\ back_ground_frame' = <<>>
            /\ passNo' = 0
            /\ \A s \in DOMAIN received' : received'[s] = <<>>]_vars

\* the stream has ended after a pass, with a sink still registered
EndOfStreamStopsWitness ==
    /\ streamEnded
    /\ capPc = "returned"
    /\ passNo >= 1
    /\ DOMAIN state.streams # {}

\* C12: after the first frame the background never changes, and the image of
\* every payload holds, at every pixel should_cut_off selects in the current
\* frame, the pixel of that background.
BackgroundFixed ==
    [][/\ capPc # "start" => back_ground_frame' = back_ground_frame
       /\ capPc' = "pass" =>
            LET current == to_colors(frame'.data)
                image == payload'.image
            IN  \A i \in 1..Len(current) :
                    should_cut_off(state'.filter, current[i]) =>
                        SubSeq(image, 4 * i - 3, 4 * i)
                            = ColorInto(back_ground_frame[i])]_vars

\* the second pass replaces a key pixel by a different background pixel
BackgroundFixedWitness ==
    /\ capPc = "pass"
    /\ passNo = 2
    /\ should_cut_off(state.filter, to_colors(frame.data)[1])
    /\ back_ground_frame[1] # to_colors(frame.data)[1]
    /\ SubSeq(payload.image, 1, 4) = ColorInto(back_ground_frame[1])

\* C13: no write or flush is attempted on a sink that has failed before; a pass
\* with failures ends like any other, with the main thread back at
\* wait_for_frame in a running process; and the pass of the next frame takes
\* every sink that is registered and has not failed.
FailedSinkDropped ==
    [][/\ \A k \in remaining \ remaining' : state.streams[k] \notin failedSinks
       /\ (capPc = "pass" /\ capPc' # "pass") =>
            (capPc' = "wait" /\ proc' = "running" /\ lock' = "free")
       /\ (capPc = "process" /\ capPc' = "pass") =>
            {state.streams[k] : k \in remaining'}
                = {s \in DOMAIN regAt : s \notin failedSinks}]_vars

\* the second pass is over: a sink that failed in the first pass was not part
\* of it, another sink was written its payload
FailedSinkDroppedWitness ==
    /\ capPc = "pass"
    /\ passNo = 2
    /\ remaining = {}
    /\ \E s \in failedSinks : s \notin Sinks(passPre) /\ regAt[s] = 0
    /\ \E s \in DOMAIN received : received[s] = <<1, 2>>

FramesAndPasses ==
    /\ capPc \in {"start", "wait", "pass", "returned"} => passNo = framesSeen
    /\ capPc \in {"lock", "process", "panicked"} => passNo = framesSeen - 1

GuardOnlyInside ==
    /\ lock = "accept" => accPc = "insert"
    /\ lock = "capture" => capPc \in {"process", "pass", "panicked"}
    /\ capPc \in {"start", "wait", "lock", "returned"} => lock # "capture"

AcceptedRegistered ==
    /\ Len(issued) = accepted - (IF accPc \in {"lock", "insert"} THEN 1 ELSE 0)
    /\ \A s \in 1..Len(issued) : s \in DOMAIN regAt

\* C16: a failed accept attempt changes neither the map nor the counter and
\* leaves the accept thread at incoming(); every connection yielded, before or
\* after a failure, is in hand or inserted.
AcceptErrorSkipped ==
    [][/\ acceptErrs' # acceptErrs =>
            /\ state' = state
            /\ lock' = lock
            /\ accPc = "incoming" /\ accPc' = "incoming"
       /\ AcceptedRegistered']_vars

\* the first connection, yielded after a failed attempt, is being inserted
AcceptErrorSkippedWitness ==
    /\ acceptErrs >= 1
    /\ accepted = 1
    /\ accPc = "insert"

\* C17: the filter is Red in every state, and insert_stream changes con_count
\* and streams only, keeping the entries that were there.
FilterFixed ==
    [][/\ state.filter = "Red" /\ state'.filter = "Red"
       /\ (accPc = "insert" /\ accPc' # "insert") =>
            /\ state' = [state EXCEPT !.con_count = state'.con_count,
                                      !.streams = state'.streams]
            /\ \A k \in DOMAIN state.streams :
                   k \in DOMAIN state'.streams /\ state'.streams[k] = state.streams[k]
            /\ UNCHANGED <<proc, capVars, passVars>>]_vars

\* an insert and a pass have happened
FilterFixedWitness ==
    /\ state.filter = "Red"
    /\ Len(issued) >= 1
    /\ passNo >= 1
    /\ capPc = "wait"

\* C18: the main thread holds the guard from before the frame is decoded to the
\* end of the pass: in between the registry does not change and no connection
\* is inserted, the pass takes the entries present when the guard was taken,
\* and the first payload a sink is written is that of the pass after its insert.
GuardBeforeDecode ==
    [][/\ (capPc = "lock" /\ capPc' = "process") => lock' = "capture"
       /\ capPc = "process" =>
            /\ lock = "capture"
            /\ state'.streams = state.streams
            /\ issued' = issued
            /\ capPc' = "pass" => remaining' = DOMAIN state.streams
       /\ (capPc = "pass" /\ capPc' = "pass") =>
            (DOMAIN state'.streams = DOMAIN state.streams /\ issued' = issued)
       /\ \A s \in DOMAIN regAt' :
            received'[s] # <<>> => received'[s][1] = regAt'[s] + 1]_vars

\* a connection is in hand while the frame is decoded under the guard
GuardBeforeDecodeWitness ==
    /\ capPc = "process"
    /\ lock = "capture"
    /\ accPc = "lock"
    /\ frame # NoFrame

\* C19: the payload carries the width and height read from the first frame,
\* which are those of the background, whatever the size of the current frame.
PayloadSizeOfBackground ==
    /\ w * h = Len(back_ground_frame)
    /\ capPc = "pass" => (payload.width = w /\ payload.height = h)

\* the payload of a frame of another size carries the size of the background
PayloadSizeOfBackgroundWitness ==
    /\ capPc = "pass"
    /\ frame.w # w
    /\ payload.width = w
    /\ payload.width * payload.height * 4 # Len(payload.image)

====
